---- MODULE Spec2Model ----
(***************************************************************************)
(* State-machine model of QdrantVectorDatabase                             *)
(* (packages/core/src/vectordb/qdrant-vectordb.ts).                        *)
(*                                                                         *)
(* One adapter instance, a Qdrant backend it talks to, and a fixed number  *)
(* of callers that invoke the public operations concurrently.  Every       *)
(* public operation is an async function, so it runs in three steps:       *)
(*   invoke          -> the call suspends on `await ensureInitialized()`   *)
(*   EnsureInitialized -> the gate resumes the call, which builds and      *)
(*                      issues its single backend request                  *)
(*   Backend*        -> the backend processes the request atomically       *)
(*   Return          -> the call resumes on the response and maps it       *)
(* Strings are sequences of tokens, so that trimming, regular-expression   *)
(* matching and substring search are computed and not assumed.             *)
(***************************************************************************)
EXTENDS Integers, Sequences, FiniteSets, TLC

VARIABLES
    config,                \* the QdrantConfig the constructor was given
    clientConfig,          \* history: the configuration `new QdrantClient` was given
    initializationPromise, \* "pending" | "fulfilled" | "rejected"
    client,                \* 0 is null, n > 0 is the n-th handle constructed
    setupRuns,             \* number of times initialize() was started
    collections,           \* backend: name -> [exists, kind, points]
    backendErrors,         \* backend: how it reports a missing collection, and its faults
    ops,                   \* caller -> the call it has in flight
    known,                 \* history: what the callers were told of each name
    deleted,               \* history: name -> ids whose deletion was acknowledged
    inserted               \* history: name -> documents whose insertion was acknowledged

vars == <<config, clientConfig, initializationPromise, client, setupRuns, collections,
          backendErrors, ops, known, deleted, inserted>>

(***************************************************************************)
(* Bounds of the model.                                                    *)
(***************************************************************************)
MaxId == 2
MaxBatch == 2

Ids == 1..MaxId

\* the callers that have the adapter: those of the specification at hand
Procs == DOMAIN ops

(***************************************************************************)
(* Program constants.                                                      *)
(***************************************************************************)
DefaultTopK == 10
DefaultQueryLimit == 100
DefaultPort == 6333
NotFoundStatus == 404

(***************************************************************************)
(* Optional values (a property that may be undefined) and JavaScript's     *)
(* `x || d`, which takes d for undefined and for every falsy x (0, "").    *)
(***************************************************************************)
None == [some |-> FALSE, v |-> 0]
Some(x) == [some |-> TRUE, v |-> x]
OrDefault(opt, d) == IF opt.some /\ opt.v # 0 THEN opt.v ELSE d

Min(a, b) == IF a <= b THEN a ELSE b

(***************************************************************************)
(* Strings: sequences of tokens.  Q is the double quote, SP a whitespace   *)
(* character; a word such as "relativePath" is one token.                  *)
(***************************************************************************)
Q == "\""
SP == " "

IsPrefixAt(pat, s, i) ==
    /\ i + Len(pat) - 1 <= Len(s)
    /\ \A k \in 1..Len(pat) : s[i + k - 1] = pat[k]

\* String.prototype.includes
Includes(s, pat) == \E i \in 1..(Len(s) + 1) : IsPrefixAt(pat, s, i)

RECURSIVE TrimLeft(_)
TrimLeft(s) == IF s # <<>> /\ Head(s) = SP THEN TrimLeft(Tail(s)) ELSE s

RECURSIVE TrimRight(_)
TrimRight(s) ==
    IF s # <<>> /\ s[Len(s)] = SP THEN TrimRight(SubSeq(s, 1, Len(s) - 1)) ELSE s

\* String.prototype.trim
Trim(s) == TrimRight(TrimLeft(s))

\* first index >= i of s that holds no whitespace (Len(s)+1 when there is none): \s*
RECURSIVE SkipSpaces(_, _)
SkipSpaces(s, i) == IF i <= Len(s) /\ s[i] = SP THEN SkipSpaces(s, i + 1) ELSE i

\* first index >= i of s that holds a double quote (Len(s)+1 when there is none): [^"]*
RECURSIVE SkipNonQuotes(_, _)
SkipNonQuotes(s, i) == IF i <= Len(s) /\ s[i] # Q THEN SkipNonQuotes(s, i + 1) ELSE i

(***************************************************************************)
(* filter.match(/relativePath\s*==\s*"([^"]+)"/): the match attempted at   *)
(* position i, as [ok, group]; and the leftmost match of the whole string. *)
(***************************************************************************)
NoMatch == [ok |-> FALSE, group |-> <<>>]

MatchAt(s, i) ==
    IF ~(i <= Len(s) /\ s[i] = "relativePath") THEN NoMatch
    ELSE LET j == SkipSpaces(s, i + 1) IN
         IF ~(j <= Len(s) /\ s[j] = "==") THEN NoMatch
         ELSE LET k == SkipSpaces(s, j + 1) IN
              IF ~(k <= Len(s) /\ s[k] = Q) THEN NoMatch
              ELSE LET e == SkipNonQuotes(s, k + 1) IN
                   IF e = k + 1 \/ e > Len(s) THEN NoMatch
                   ELSE [ok |-> TRUE, group |-> SubSeq(s, k + 1, e - 1)]

RECURSIVE MatchFrom(_, _)
MatchFrom(s, i) ==
    IF i > Len(s) THEN NoMatch
    ELSE IF MatchAt(s, i).ok THEN MatchAt(s, i) ELSE MatchFrom(s, i + 1)

PathMatch(s) == MatchFrom(s, 1)

(***************************************************************************)
(* The Milvus-style filter converted to a Qdrant filter: null, or one      *)
(* `must` condition matching the key relativePath against the group.       *)
(***************************************************************************)
NoFilter == [some |-> FALSE, key |-> "", value |-> <<>>]

QdrantFilter_Dropped(filter) == NoFilter

QdrantFilter(filter) ==
    IF filter # <<>> /\ Trim(filter) # <<>> /\ PathMatch(filter).ok
    THEN [some |-> TRUE, key |-> "relativePath", value |-> PathMatch(filter).group]
    ELSE NoFilter

(***************************************************************************)
(* Vectors are the unit vectors of the plane, so that the cosine of two of *)
(* them is their dot product: 1, 0 or -1.                                  *)
(***************************************************************************)
Vectors == {<<1, 0>>, <<0, 1>>, <<-1, 0>>}
Cosine(u, v) == u[1] * v[1] + u[2] * v[2]

(***************************************************************************)
(* VectorDocument, and the point insert / insertHybrid encode it to.       *)
(***************************************************************************)
Doc(id, vector, path) ==
    [id |-> id, vector |-> vector, content |-> <<"x">>, relativePath |-> path,
     startLine |-> 1, endLine |-> 2, fileExtension |-> <<".ts">>, metadata |-> <<>>]

\* an encoder that leaves the metadata out
PayloadOf_NoMetadata(doc) ==
    [content |-> doc.content, relativePath |-> doc.relativePath,
     startLine |-> doc.startLine, endLine |-> doc.endLine,
     fileExtension |-> doc.fileExtension]

PayloadOf(doc) ==
    [content |-> doc.content, relativePath |-> doc.relativePath,
     startLine |-> doc.startLine, endLine |-> doc.endLine,
     fileExtension |-> doc.fileExtension, metadata |-> doc.metadata]

\* insert: the vector is sent bare
InsertPoint(doc) ==
    [id |-> doc.id, named |-> FALSE, vector |-> doc.vector, payload |-> PayloadOf(doc)]

\* insertHybrid: the vector is sent under the name "dense"
InsertHybridPoint(doc) ==
    [id |-> doc.id, named |-> TRUE, vector |-> doc.vector, payload |-> PayloadOf(doc)]

Range(s) == {s[i] : i \in 1..Len(s)}

(***************************************************************************)
(* Errors: a status (0 when the error carries none) and a message.         *)
(***************************************************************************)
Err(status, message) == [status |-> status, message |-> message]

\* thrown by ensureInitialized when the handle is null
NotInitializedError == Err(0, <<"Qdrant", "client", "not", "initialized">>)
\* thrown by hybridSearch when no dense request is present
DenseRequiredError == Err(0, <<"Dense", "vector", "search", "request", "required">>)
\* thrown by `new QdrantClient(clientConfig)` on a configuration it rejects
ClientConfigError == Err(0, <<"invalid", "client", "configuration">>)

\* what a backend answers for a collection that does not exist: each backend
\* has one of these forms
NotFoundErrors ==
    {Err(NotFoundStatus, <<"Not", "Found">>),
     Err(NotFoundStatus, <<>>),
     Err(400, <<"collection", "not", "found">>)}
ConflictError == Err(409, <<"collection", "already", "exists">>)
BadRequestError == Err(400, <<"wrong", "input">>)
\* failures that have nothing to do with the request: server fault, lost connection
TransportErrors == {Err(500, <<"internal", "error">>), Err(0, <<"fetch", "failed">>)}

Ok(value) == [tag |-> "ok", value |-> value]
Failed(error) == [tag |-> "err", error |-> error]

(***************************************************************************)
(* The backend.  A collection is [exists, kind, points]; points is a set   *)
(* of points with distinct ids.  Each request is processed atomically and  *)
(* yields a set of possible outcomes [colls, resp] (more than one when the *)
(* backend is free to choose, as between hits of equal score).             *)
(***************************************************************************)
NoCollection == [exists |-> FALSE, kind |-> "none", points |-> {}]

Outcome(colls, resp) == [colls |-> colls, resp |-> resp]
Missing(colls) == {Outcome(colls, Failed(backendErrors.notFound))}

BackendCreateCollection(colls, call) ==
    IF colls[call.name].exists
    THEN {Outcome(colls, Failed(ConflictError))}
    ELSE {Outcome([colls EXCEPT ![call.name] =
                       [exists |-> TRUE, kind |-> call.kind, points |-> {}]],
                  Ok(TRUE))}

BackendDeleteCollection(colls, call) ==
    {Outcome([colls EXCEPT ![call.name] = NoCollection], Ok(colls[call.name].exists))}

BackendGetCollection(colls, call) ==
    IF colls[call.name].exists
    THEN {Outcome(colls, Ok(colls[call.name].kind))}
    ELSE Missing(colls)

BackendGetCollections(colls, call) ==
    {Outcome(colls, Ok({n \in DOMAIN colls : colls[n].exists}))}

\* the points of a batch, a later point of the same id replacing an earlier one
RECURSIVE Upserted(_, _)
Upserted(points, batch) ==
    IF batch = <<>> THEN points
    ELSE Upserted({pt \in points : pt.id # Head(batch).id} \cup {Head(batch)}, Tail(batch))

\* with wait: true the points are written when the request is answered; without
\* it the answer may come before they are
BackendUpsert(colls, call) ==
    LET c == colls[call.name] IN
    IF ~c.exists THEN Missing(colls)
    ELSE IF \E i \in 1..Len(call.points) : call.points[i].named # (c.kind = "hybrid")
    THEN {Outcome(colls, Failed(BadRequestError))}
    ELSE {Outcome([colls EXCEPT ![call.name].points = Upserted(c.points, call.points)],
                  Ok(TRUE))}
         \cup (IF call.wait THEN {} ELSE {Outcome(colls, Ok(TRUE))})

BackendDelete(colls, call) ==
    LET c == colls[call.name] IN
    IF ~c.exists THEN Missing(colls)
    ELSE {Outcome([colls EXCEPT ![call.name].points =
                       {pt \in c.points : pt.id \notin Range(call.points)}],
                  Ok(TRUE))}

\* a point that was stored without payload is answered without one
NoPayload == [some |-> FALSE, v |-> <<>>]

Hit(pt, queryVector) ==
    [id |-> pt.id, score |-> Cosine(queryVector, pt.vector),
     payload |-> IF "payload" \in DOMAIN pt THEN Some(pt.payload) ELSE NoPayload]

\* hits best first, those of equal score by id
RECURSIVE Ranked(_)
Ranked(hits) ==
    IF hits = {} THEN <<>>
    ELSE LET best == CHOOSE h \in hits :
                        \A g \in hits : h.score > g.score \/
                                         (h.score = g.score /\ h.id <= g.id)
         IN  <<best>> \o Ranked(hits \ {best})

\* the hits a search may answer: the `limit` best of those that reach the
\* score threshold (when one is given), best first; which of the hits of equal
\* score make the cut is the backend's choice
SearchHits(points, queryVector, limit, threshold) ==
    LET cand == {Hit(pt, queryVector) : pt \in
                    {pt \in points : threshold.some =>
                                       Cosine(queryVector, pt.vector) >= threshold.v}}
        n == Min(limit, Cardinality(cand))
    IN  {Ranked(top) : top \in
            {t \in SUBSET cand :
                /\ Cardinality(t) = n
                /\ \A h \in cand \ t : \A g \in t : g.score >= h.score}}

BackendSearch(colls, call) ==
    LET c == colls[call.name] IN
    IF ~c.exists THEN Missing(colls)
    ELSE IF call.named # (c.kind = "hybrid")
    THEN {Outcome(colls, Failed(BadRequestError))}
    ELSE {Outcome(colls, Ok(s)) :
             s \in SearchHits(c.points, call.vector, call.limit, call.score_threshold)}

\* scroll answers the matching points by ascending id, `limit` at most
RECURSIVE ById(_)
ById(points) ==
    IF points = {} THEN <<>>
    ELSE LET first == CHOOSE pt \in points : \A o \in points : pt.id <= o.id
         IN  <<first>> \o ById(points \ {first})

Matches(pt, filter) ==
    filter.some =>
        /\ "payload" \in DOMAIN pt
        /\ filter.key \in DOMAIN pt.payload
        /\ pt.payload[filter.key] = filter.value

BackendScroll(colls, call) ==
    LET c == colls[call.name] IN
    IF ~c.exists THEN Missing(colls)
    ELSE LET all == ById({pt \in c.points : Matches(pt, call.filter)})
         IN  {Outcome(colls, Ok(SubSeq(all, 1, Min(call.limit, Len(all)))))}

Execute(colls, call) ==
    CASE call.api = "createCollection" -> BackendCreateCollection(colls, call)
      [] call.api = "deleteCollection" -> BackendDeleteCollection(colls, call)
      [] call.api = "getCollection" -> BackendGetCollection(colls, call)
      [] call.api = "getCollections" -> BackendGetCollections(colls, call)
      [] call.api = "upsert" -> BackendUpsert(colls, call)
      [] call.api = "delete" -> BackendDelete(colls, call)
      [] call.api = "search" -> BackendSearch(colls, call)
      [] call.api = "scroll" -> BackendScroll(colls, call)

(***************************************************************************)
(* The adapter.  What a call hands back to its caller: a value, or an      *)
(* error it throws.                                                        *)
(***************************************************************************)
Returned(value) == [tag |-> "value", value |-> value]
Thrown(error) == [tag |-> "throw", error |-> error]

\* the request a handler issues once the gate has let it through
Request(call) == [tag |-> "call", call |-> call]

CreateCollectionCall(args) ==
    Request([api |-> "createCollection", name |-> args.name, kind |-> "simple",
             size |-> args.dimension])

CreateHybridCollectionCall(args) ==
    Request([api |-> "createCollection", name |-> args.name, kind |-> "hybrid",
             size |-> args.dimension])

DropCollectionCall(args) == Request([api |-> "deleteCollection", name |-> args.name])

HasCollectionCall(args) == Request([api |-> "getCollection", name |-> args.name])

ListCollectionsCall(args) == Request([api |-> "getCollections"])

\* an insert that does not ask the backend to wait for the write
InsertCall_NoWait(args) ==
    Request([api |-> "upsert", name |-> args.name, wait |-> FALSE,
             points |-> [i \in 1..Len(args.documents) |-> InsertPoint(args.documents[i])]])

InsertCall(args) ==
    Request([api |-> "upsert", name |-> args.name, wait |-> TRUE,
             points |-> [i \in 1..Len(args.documents) |-> InsertPoint(args.documents[i])]])

InsertHybridCall(args) ==
    Request([api |-> "upsert", name |-> args.name, wait |-> TRUE,
             points |-> [i \in 1..Len(args.documents) |->
                            InsertHybridPoint(args.documents[i])]])

\* a search that asks for the best hit only
SearchCall_LimitOne(args) ==
    Request([api |-> "search", name |-> args.name, named |-> FALSE,
             vector |-> args.queryVector,
             limit |-> 1,
             score_threshold |-> Some(OrDefault(args.threshold, 0))])

SearchCall(args) ==
    Request([api |-> "search", name |-> args.name, named |-> FALSE,
             vector |-> args.queryVector,
             limit |-> OrDefault(args.topK, DefaultTopK),
             score_threshold |-> Some(OrDefault(args.threshold, 0))])

\* searchRequests.find(req => req.anns_field === 'vector'): index of the first, or 0
RECURSIVE FindDense(_, _)
FindDense(requests, i) ==
    IF i > Len(requests) THEN 0
    ELSE IF requests[i].anns_field = "vector" THEN i ELSE FindDense(requests, i + 1)

\* a hybridSearch that falls back on the first request when none is dense
HybridSearchCall_FirstRequest(args) ==
    LET first == IF args.searchRequests = <<>> THEN None ELSE args.searchRequests[1].limit
        limit == OrDefault(args.limit, OrDefault(first, DefaultTopK))
        d == FindDense(args.searchRequests, 1)
        use == IF d = 0 THEN 1 ELSE d
    IN  IF args.searchRequests = <<>>
        THEN Thrown(DenseRequiredError)
        ELSE Request([api |-> "search", name |-> args.name, named |-> TRUE,
                      vector |-> args.searchRequests[use].data,
                      limit |-> limit, score_threshold |-> None])

HybridSearchCall(args) ==
    LET first == IF args.searchRequests = <<>> THEN None ELSE args.searchRequests[1].limit
        limit == OrDefault(args.limit, OrDefault(first, DefaultTopK))
        d == FindDense(args.searchRequests, 1)
    IN  IF d = 0 \/ ~args.searchRequests[d].isArray
        THEN Thrown(DenseRequiredError)
        ELSE Request([api |-> "search", name |-> args.name, named |-> TRUE,
                      vector |-> args.searchRequests[d].data,
                      limit |-> limit, score_threshold |-> None])

DeleteCall_DropFirst(args) ==
    Request([api |-> "delete", name |-> args.name, wait |-> TRUE, points |-> Tail(args.ids)])

DeleteCall(args) ==
    Request([api |-> "delete", name |-> args.name, wait |-> TRUE, points |-> args.ids])

QueryCall(args) ==
    Request([api |-> "scroll", name |-> args.name, filter |-> QdrantFilter(args.filter),
             limit |-> OrDefault(args.limit, DefaultQueryLimit)])

BuildCall(op, args) ==
    CASE op = "createCollection" -> CreateCollectionCall(args)
      [] op = "createHybridCollection" -> CreateHybridCollectionCall(args)
      [] op = "dropCollection" -> DropCollectionCall(args)
      [] op = "hasCollection" -> HasCollectionCall(args)
      [] op = "listCollections" -> ListCollectionsCall(args)
      [] op = "insert" -> InsertCall(args)
      [] op = "insertHybrid" -> InsertHybridCall(args)
      [] op = "search" -> SearchCall(args)
      [] op = "hybridSearch" -> HybridSearchCall(args)
      [] op = "delete" -> DeleteCall(args)
      [] op = "query" -> QueryCall(args)

(***************************************************************************)
(* What each handler makes of the backend's response.                      *)
(***************************************************************************)
\* the handlers that await the call and return nothing
VoidReturn(resp) ==
    IF resp.tag = "ok" THEN Returned("void") ELSE Thrown(resp.error)

\* the catch clause of hasCollection
HasCollectionCatch_StatusOnly(error) ==
    IF error.status = NotFoundStatus THEN Returned(FALSE) ELSE Thrown(error)

HasCollectionCatch_True(error) ==
    IF error.status = NotFoundStatus \/ Includes(error.message, <<"not", "found">>)
    THEN Returned(TRUE)
    ELSE Thrown(error)

HasCollectionCatch(error) ==
    IF error.status = NotFoundStatus \/ Includes(error.message, <<"not", "found">>)
    THEN Returned(FALSE)
    ELSE Thrown(error)

HasCollectionReturn(resp) ==
    IF resp.tag = "ok" THEN Returned(TRUE) ELSE HasCollectionCatch(resp.error)

ListCollectionsReturn(resp) ==
    IF resp.tag = "ok" THEN Returned(resp.value) ELSE Thrown(resp.error)

\* result.payload || {}
PayloadOrEmpty(payload) == IF payload.some THEN payload.v ELSE <<>>

\* a decoder that leaves a missing string undefined
StrOr_Undefined(payload, key) ==
    IF key \in DOMAIN payload THEN payload[key] ELSE <<"undefined">>

\* payload.key || default, for a string, a number and a mapping
StrOr(payload, key) ==
    IF key \in DOMAIN payload /\ payload[key] # <<>> THEN payload[key] ELSE <<>>
NumOr(payload, key) ==
    IF key \in DOMAIN payload /\ payload[key] # 0 THEN payload[key] ELSE 0
MapOr(payload, key) ==
    IF key \in DOMAIN payload THEN payload[key] ELSE <<>>

DecodeHit(hit, vector) ==
    LET payload == PayloadOrEmpty(hit.payload) IN
    [document |->
        [id |-> hit.id, vector |-> vector,
         content |-> StrOr(payload, "content"),
         relativePath |-> StrOr(payload, "relativePath"),
         startLine |-> NumOr(payload, "startLine"),
         endLine |-> NumOr(payload, "endLine"),
         fileExtension |-> StrOr(payload, "fileExtension"),
         metadata |-> MapOr(payload, "metadata")],
     score |-> hit.score]

SearchReturn(args, resp) ==
    IF resp.tag = "ok"
    THEN Returned([i \in 1..Len(resp.value) |-> DecodeHit(resp.value[i], args.queryVector)])
    ELSE Thrown(resp.error)

HybridSearchReturn(args, resp) ==
    IF resp.tag = "ok"
    THEN Returned([i \in 1..Len(resp.value) |-> DecodeHit(resp.value[i], <<>>)])
    ELSE Thrown(resp.error)

\* names every object has without holding them: `name in object` is true of them
ObjectPrototypeKeys == {"constructor", "toString"}

\* one record of query: the id, and the output fields that are `in` the payload,
\* a name the payload inherits giving the inherited value
QueryRecord(pt, outputFields) ==
    IF "payload" \notin DOMAIN pt THEN [id |-> pt.id, fields |-> <<>>]
    ELSE
    [id |-> pt.id,
     fields |-> [f \in outputFields \cap (DOMAIN pt.payload \cup ObjectPrototypeKeys) |->
                    IF f \in DOMAIN pt.payload THEN pt.payload[f] ELSE "inherited"]]

QueryReturn(args, resp) ==
    IF resp.tag = "ok"
    THEN Returned([i \in 1..Len(resp.value) |-> QueryRecord(resp.value[i], args.outputFields)])
    ELSE Thrown(resp.error)

Result(op, args, resp) ==
    CASE op \in {"createCollection", "createHybridCollection", "dropCollection",
                 "insert", "insertHybrid", "delete"} -> VoidReturn(resp)
      [] op = "hasCollection" -> HasCollectionReturn(resp)
      [] op = "listCollections" -> ListCollectionsReturn(resp)
      [] op = "search" -> SearchReturn(args, resp)
      [] op = "hybridSearch" -> HybridSearchReturn(args, resp)
      [] op = "query" -> QueryReturn(args, resp)

(***************************************************************************)
(* The calls in flight.                                                    *)
(*   pc      "idle" | "gate" | "issued" | "responded" | "done"             *)
(*   early   the call was invoked while the setup task was pending         *)
(*   calls   backend requests this call has issued                         *)
(*   via     the handle the request was issued through                     *)
(*   snap    history: what the backend held when it processed the request  *)
(*   clean   history: no call that undoes this one (a drop for a creation, *)
(*           a creation for a drop) was in flight when it was called, and  *)
(*           none has been called since                                    *)
(***************************************************************************)
Idle ==
    [pc |-> "idle", op |-> "none", args |-> <<>>, call |-> <<>>, resp |-> <<>>,
     result |-> <<>>, snap |-> <<>>, early |-> FALSE, calls |-> 0, via |-> 0,
     clean |-> FALSE]

InFlight(o) == o.pc \in {"gate", "issued", "responded"}

(***************************************************************************)
(* QdrantConfig: url, host and apiKey are optional strings, port and       *)
(* timeout optional numbers.  `if (x)` takes a string that is present and  *)
(* not empty, `x || d` a number that is present and not 0.                 *)
(***************************************************************************)
NoStr == [some |-> FALSE, v |-> <<>>]
Truthy(opt) == opt.some /\ opt.v # <<>>

Config(url, host, port, apiKey, timeout) ==
    [url |-> url, host |-> host, port |-> port, apiKey |-> apiKey, timeout |-> timeout]

\* an initializeClient that looks at the host before the url
ClientConfig_HostFirst(cfg) ==
    LET target ==
            IF Truthy(cfg.host)
            THEN [url |-> NoStr, host |-> cfg.host,
                  port |-> Some(OrDefault(cfg.port, DefaultPort))]
            ELSE IF Truthy(cfg.url)
            THEN [url |-> cfg.url, host |-> NoStr, port |-> None]
            ELSE [url |-> NoStr, host |-> Some(<<"localhost">>), port |-> Some(DefaultPort)]
    IN  [url |-> target.url, host |-> target.host, port |-> target.port,
         apiKey |-> IF Truthy(cfg.apiKey) THEN cfg.apiKey ELSE NoStr,
         timeout |-> IF cfg.timeout.some /\ cfg.timeout.v # 0 THEN cfg.timeout ELSE None]

\* initializeClient: the clientConfig it builds, a property it does not set
\* being absent
ClientConfig(cfg) ==
    LET target ==
            IF Truthy(cfg.url)
            THEN [url |-> cfg.url, host |-> NoStr, port |-> None]
            ELSE IF Truthy(cfg.host)
            THEN [url |-> NoStr, host |-> cfg.host,
                  port |-> Some(OrDefault(cfg.port, DefaultPort))]
            ELSE [url |-> NoStr, host |-> Some(<<"localhost">>), port |-> Some(DefaultPort)]
    IN  [url |-> target.url, host |-> target.host, port |-> target.port,
         apiKey |-> IF Truthy(cfg.apiKey) THEN cfg.apiKey ELSE NoStr,
         timeout |-> IF cfg.timeout.some /\ cfg.timeout.v # 0 THEN cfg.timeout ELSE None]

\* `new QdrantClient(clientConfig)` throws on a url that has no http or https scheme
Schemes == {"http://", "https://"}
ClientRejects(cc) == cc.url.some /\ Head(cc.url.v) \notin Schemes

\* initialize(): an async function, so it returns a promise whatever happens
\* in it; initializeClient has run up to its end (it awaits nothing) and has
\* set the handle unless `new QdrantClient` threw
\* an initialize() that is not async: what initializeClient throws, it throws
Initialize_Sync(cfg) ==
    [threw |-> ClientRejects(ClientConfig(cfg)),
     clientConfig |-> ClientConfig(cfg),
     client |-> IF ClientRejects(ClientConfig(cfg)) THEN 0 ELSE 1]

Initialize(cfg) ==
    [threw |-> FALSE,
     clientConfig |-> ClientConfig(cfg),
     client |-> IF ClientRejects(ClientConfig(cfg)) THEN 0 ELSE 1]

GoodConfig == Config(Some(<<"http://", "q:6333">>), NoStr, None, NoStr, None)
BadConfig == Config(Some(<<"q:6333">>), NoStr, None, NoStr, None)

(***************************************************************************)
(* constructor: keeps the config and starts initialize(), which runs       *)
(* initializeClient() up to its end before the constructor returns.  The   *)
(* handle is set unless `new QdrantClient` threw; the promise of           *)
(* initialize() is still pending when the constructor returns.  Had        *)
(* initialize() thrown, the constructor would have thrown with it and the  *)
(* promise would be unassigned.                                            *)
(***************************************************************************)
Constructor(callers, cfg, colls, errors) ==
    /\ config = cfg
    /\ clientConfig = Initialize(cfg).clientConfig
    /\ client = Initialize(cfg).client
    /\ setupRuns = 1
    /\ initializationPromise = IF Initialize(cfg).threw THEN "unassigned" ELSE "pending"
    /\ collections = colls
    /\ backendErrors = errors
    /\ ops = [p \in callers |-> Idle]
    /\ known = [n \in DOMAIN colls |-> IF colls[n].exists THEN "present" ELSE "absent"]
    /\ deleted = [n \in DOMAIN colls |-> {}]
    /\ inserted = [n \in DOMAIN colls |-> {}]

\* initialize() resumes after `await this.initializeClient()`
SettleInitialize ==
    /\ initializationPromise = "pending"
    /\ initializationPromise' = IF client = 0 THEN "rejected" ELSE "fulfilled"
    /\ UNCHANGED <<config, clientConfig, client, setupRuns, collections, backendErrors, ops,
                   known, deleted, inserted>>

(***************************************************************************)
(* History of what the callers know of a name: "present" once a creation   *)
(* of it has returned and no drop of it has been called since, "absent"    *)
(* while it was never created or once a drop of it has returned and no     *)
(* creation of it has been called since, "unknown" in between.             *)
(***************************************************************************)
Creates == {"createCollection", "createHybridCollection"}
Drops == {"dropCollection"}

Pending(kinds, name) ==
    \E q \in Procs : InFlight(ops[q]) /\ ops[q].op \in kinds /\ ops[q].args.name = name

Inserts == {"insert", "insertHybrid"}

\* the calls that may undo the effect of a call of op
Undoing(op) ==
    IF op \in Creates THEN Drops
    ELSE IF op \in Drops THEN Creates
    ELSE IF op \in Inserts THEN Inserts \cup {"delete"} \cup Creates \cup Drops
    ELSE {}

KnownOnInvoke(op, args) ==
    IF op \in Drops \/ (op \in Creates /\ known[args.name] # "present")
    THEN [known EXCEPT ![args.name] = "unknown"]
    ELSE known

KnownOnReturn(p, r) ==
    LET o == ops[p] IN
    IF o.op \in Creates /\ r.tag = "value" /\ o.clean
    THEN [known EXCEPT ![o.args.name] = "present"]
    ELSE IF o.op \in Drops /\ r.tag = "value" /\ o.clean
    THEN [known EXCEPT ![o.args.name] = "absent"]
    ELSE known

(***************************************************************************)
(* History of the documents a collection is known to hold: those of an     *)
(* insert that has returned, the last of each id, as long as no call that  *)
(* writes or deletes the id has been called since.                         *)
(***************************************************************************)
DocIds(docs) == {docs[i].id : i \in 1..Len(docs)}

LastOfEachId(docs) ==
    {docs[i] : i \in {i \in 1..Len(docs) :
                        \A j \in (i + 1)..Len(docs) : docs[j].id # docs[i].id}}

InsertedOnInvoke(op, args) ==
    IF op \in Inserts
    THEN [inserted EXCEPT ![args.name] = {d \in @ : d.id \notin DocIds(args.documents)}]
    ELSE IF op = "delete"
    THEN [inserted EXCEPT ![args.name] = {d \in @ : d.id \notin Range(args.ids)}]
    ELSE IF op \in Creates \cup Drops
    THEN [inserted EXCEPT ![args.name] = {}]
    ELSE inserted

InsertedOnReturn(p, r) ==
    LET o == ops[p] IN
    IF o.op \in Inserts /\ r.tag = "value" /\ o.clean
    THEN [inserted EXCEPT ![o.args.name] =
             {d \in @ : d.id \notin DocIds(o.args.documents)}
                 \cup LastOfEachId(o.args.documents)]
    ELSE inserted

\* a public operation is called: it runs up to `await this.ensureInitialized()`
Invoke(p, op, args) ==
    /\ ops[p].pc = "idle"
    /\ ops' = [q \in Procs |->
                  IF q = p
                  THEN [Idle EXCEPT !.pc = "gate", !.op = op, !.args = args,
                                    !.early = (initializationPromise = "pending"),
                                    !.clean = /\ Undoing(op) # {}
                                              /\ ~Pending(Undoing(op), args.name)]
                  ELSE IF /\ InFlight(ops[q])
                          /\ op \in Undoing(ops[q].op)
                          /\ ops[q].args.name = args.name
                  THEN [ops[q] EXCEPT !.clean = FALSE]
                  ELSE ops[q]]
    /\ known' = KnownOnInvoke(op, args)
    /\ inserted' = InsertedOnInvoke(op, args)
    /\ UNCHANGED <<config, clientConfig, initializationPromise, client, setupRuns, collections,
                   backendErrors, deleted>>

(***************************************************************************)
(* ensureInitialized: `await this.initializationPromise` waits while the   *)
(* promise is pending and rethrows its reason when it is rejected; then a  *)
(* null handle throws 'Qdrant client not initialized'.                     *)
(***************************************************************************)
GateOutcome_NoAwait(promise, cl) == IF cl = 0 THEN "null" ELSE "open"

GateOutcome(promise, cl) ==
    IF promise = "pending" THEN "wait"
    ELSE IF promise = "rejected" THEN "rejected"
    ELSE IF cl = 0 THEN "null"
    ELSE "open"

\* the call once the gate has answered g: it throws, or issues its request
Resume(o, g, cl) ==
    CASE g = "rejected" -> [o EXCEPT !.pc = "done", !.result = Thrown(ClientConfigError)]
      [] g = "null" -> [o EXCEPT !.pc = "done", !.result = Thrown(NotInitializedError)]
      [] g = "open" ->
            LET b == BuildCall(o.op, o.args) IN
            IF b.tag = "throw"
            THEN [o EXCEPT !.pc = "done", !.result = b]
            ELSE [o EXCEPT !.pc = "issued", !.call = b.call,
                           !.calls = o.calls + 1, !.via = cl]

\* a gate that starts the setup again instead of awaiting the stored promise
EnsureInitialized_Reinit(p) ==
    /\ ops[p].pc = "gate"
    /\ client' = client + 1
    /\ setupRuns' = setupRuns + 1
    /\ ops' = [ops EXCEPT ![p] = Resume(ops[p], "open", client + 1)]
    /\ UNCHANGED <<config, clientConfig, initializationPromise, collections, backendErrors,
                   known, deleted, inserted>>

EnsureInitialized(p) ==
    /\ ops[p].pc = "gate"
    /\ GateOutcome(initializationPromise, client) # "wait"
    /\ ops' = [ops EXCEPT ![p] =
                  Resume(ops[p], GateOutcome(initializationPromise, client), client)]
    /\ UNCHANGED <<config, clientConfig, initializationPromise, client, setupRuns,
                   collections, backendErrors, known, deleted, inserted>>

(***************************************************************************)
(* The backend processes the request of p.                                 *)
(***************************************************************************)
UpsertedIds(call, resp) ==
    IF call.api = "upsert" /\ resp.tag = "ok"
    THEN {call.points[i].id : i \in 1..Len(call.points)}
    ELSE {}

SnapOf(o, resp) ==
    LET call == o.call IN
    CASE call.api = "getCollection" -> [known |-> known[call.name]]
      [] call.api \in {"search", "scroll"} /\ resp.tag = "ok" ->
            [points |-> collections[call.name].points, deleted |-> deleted[call.name],
             inserted |-> inserted[call.name]]
      [] call.api = "delete" ->
            [acked |-> IF resp.tag = "ok" THEN Range(o.args.ids) ELSE {}]
      [] OTHER -> <<>>

BackendRespond(p) ==
    /\ ops[p].pc = "issued"
    /\ \E out \in Execute(collections, ops[p].call) :
          LET call == ops[p].call
              again == UpsertedIds(call, out.resp)
          IN  /\ collections' = out.colls
              /\ ops' = [q \in Procs |->
                    IF q = p
                    THEN [ops[p] EXCEPT !.pc = "responded", !.resp = out.resp,
                                        !.snap = SnapOf(ops[p], out.resp)]
                    ELSE IF /\ again # {}
                            /\ ops[q].pc = "responded"
                            /\ ops[q].call.api = "delete"
                            /\ ops[q].call.name = call.name
                    THEN [ops[q] EXCEPT !.snap.acked = @ \ again]
                    ELSE ops[q]]
              /\ deleted' = IF again # {}
                            THEN [deleted EXCEPT ![call.name] = @ \ again]
                            ELSE deleted
    /\ UNCHANGED <<config, clientConfig, initializationPromise, client, setupRuns,
                   backendErrors, known, inserted>>

\* the request of p fails for a reason of its own: nothing is changed
BackendFail(p) ==
    /\ ops[p].pc = "issued"
    /\ \E e \in backendErrors.faults :
          ops' = [ops EXCEPT ![p] = [@ EXCEPT !.pc = "responded", !.resp = Failed(e),
                                              !.snap = SnapOf(ops[p], Failed(e))]]
    /\ UNCHANGED <<config, clientConfig, initializationPromise, client, setupRuns,
                   collections, backendErrors, known, deleted, inserted>>

\* a handler that issues its request once more when it has failed
Return_Retry(p) ==
    /\ ops[p].pc = "responded"
    /\ LET o == ops[p]
           r == Result(o.op, o.args, o.resp)
       IN  /\ ops' = [ops EXCEPT ![p] =
                         IF o.resp.tag = "err" /\ o.calls < 2
                         THEN [o EXCEPT !.pc = "issued", !.calls = o.calls + 1]
                         ELSE [o EXCEPT !.pc = "done", !.result = r]]
           /\ known' = known
           /\ deleted' = deleted
           /\ inserted' = inserted
    /\ UNCHANGED <<config, clientConfig, initializationPromise, client, setupRuns,
                   collections, backendErrors>>

\* the call of p resumes on the response and returns or throws
Return(p) ==
    /\ ops[p].pc = "responded"
    /\ LET o == ops[p]
           r == Result(o.op, o.args, o.resp)
       IN  /\ ops' = [ops EXCEPT ![p] = [o EXCEPT !.pc = "done", !.result = r]]
           /\ known' = KnownOnReturn(p, r)
           /\ deleted' =
                 IF o.op = "delete" /\ r.tag = "value"
                 THEN [deleted EXCEPT ![o.args.name] = @ \cup o.snap.acked]
                 ELSE deleted
           /\ inserted' = InsertedOnReturn(p, r)
    /\ UNCHANGED <<config, clientConfig, initializationPromise, client, setupRuns,
                   collections, backendErrors>>

\* the caller has taken the outcome and may call again
Reset(p) ==
    /\ ops[p].pc = "done"
    /\ ops' = [ops EXCEPT ![p] = Idle]
    /\ UNCHANGED <<config, clientConfig, initializationPromise, client, setupRuns,
                   collections, backendErrors, known, deleted, inserted>>

Steps(p) ==
    \/ EnsureInitialized(p)
    \/ BackendRespond(p)
    \/ BackendFail(p)
    \/ Return(p)
    \/ Reset(p)

(***************************************************************************)
(* The public operations, with the inputs a caller may pass.               *)
(***************************************************************************)
Batches(docs) == UNION {[1..n -> docs] : n \in 1..MaxBatch}

CreateCollection(p, names) ==
    \E n \in names : Invoke(p, "createCollection", [name |-> n, dimension |-> 2])

CreateHybridCollection(p, names) ==
    \E n \in names : Invoke(p, "createHybridCollection", [name |-> n, dimension |-> 2])

DropCollection(p, names) ==
    \E n \in names : Invoke(p, "dropCollection", [name |-> n])

HasCollection(p, names) ==
    \E n \in names : Invoke(p, "hasCollection", [name |-> n])

ListCollections(p) == Invoke(p, "listCollections", <<>>)

Insert(p, names, docs) ==
    \E n \in names, b \in Batches(docs) : Invoke(p, "insert", [name |-> n, documents |-> b])

InsertHybrid(p, names, docs) ==
    \E n \in names, b \in Batches(docs) :
        Invoke(p, "insertHybrid", [name |-> n, documents |-> b])

Search(p, names, vectors, topKs, thresholds) ==
    \E n \in names, v \in vectors, k \in topKs, t \in thresholds :
        Invoke(p, "search", [name |-> n, queryVector |-> v, topK |-> k, threshold |-> t])

HybridSearch(p, names, requests, limits) ==
    \E n \in names, r \in requests, l \in limits :
        Invoke(p, "hybridSearch", [name |-> n, searchRequests |-> r, limit |-> l])

Delete(p, names, idseqs) ==
    \E n \in names, ids \in idseqs : Invoke(p, "delete", [name |-> n, ids |-> ids])

Query(p, names, filters, fields, limits) ==
    \E n \in names, f \in filters, o \in fields, l \in limits :
        Invoke(p, "query", [name |-> n, filter |-> f, outputFields |-> o, limit |-> l])

DenseRequest(v, limit) ==
    [anns_field |-> "vector", data |-> v, isArray |-> TRUE, limit |-> limit]
SparseRequest(limit) ==
    [anns_field |-> "sparse_vector", data |-> <<"text">>, isArray |-> FALSE, limit |-> limit]

(***************************************************************************)
(* Spec: the connection gate.  Every public operation, called by two       *)
(* concurrent callers from the moment the constructor has returned, on an  *)
(* adapter whose client could or could not be constructed.                 *)
(***************************************************************************)
GateCallers == {1, 2}
GateNames == {"c"}
GateDocs == {Doc(1, <<1, 0>>, <<"a">>)}
GateRequests == {<<DenseRequest(<<1, 0>>, None)>>, <<SparseRequest(None)>>}

Init == \E cfg \in {GoodConfig, BadConfig} :
            Constructor(GateCallers, cfg, [n \in GateNames |-> NoCollection],
                        [notFound |-> Err(NotFoundStatus, <<"Not", "Found">>),
                         faults |-> {Err(500, <<"internal", "error">>)}])

Next ==
    \/ SettleInitialize
    \/ \E p \in Procs :
          \/ CreateCollection(p, GateNames)
          \/ CreateHybridCollection(p, GateNames)
          \/ DropCollection(p, GateNames)
          \/ HasCollection(p, GateNames)
          \/ ListCollections(p)
          \/ Insert(p, GateNames, GateDocs)
          \/ InsertHybrid(p, GateNames, GateDocs)
          \/ Search(p, GateNames, {<<1, 0>>}, {None}, {None})
          \/ HybridSearch(p, GateNames, GateRequests, {None})
          \/ Delete(p, GateNames, {<<1>>})
          \/ Query(p, GateNames, {<<>>}, {{"content"}}, {None})
          \/ Steps(p)

Spec == Init /\ [][Next]_vars

(***************************************************************************)
(* C1: no backend request is issued before the setup task has completed    *)
(* with a handle: a call that has issued a request did so through the      *)
(* handle after the setup promise was fulfilled, and while the promise is  *)
(* pending every call that was invoked is still waiting at the gate.       *)
(***************************************************************************)
C1_NoCallBeforeSetup ==
    /\ \A p \in Procs :
          ops[p].calls > 0 =>
              /\ initializationPromise = "fulfilled"
              /\ client # 0
              /\ ops[p].via = client
    /\ initializationPromise = "pending" =>
          \A p \in Procs : ops[p].pc \in {"idle", "gate"}

\* a call invoked while the setup was pending has gone through the gate
C1_Witness ==
    \E p \in Procs : ops[p].early /\ ops[p].pc = "issued" /\ ops[p].calls = 1

(***************************************************************************)
(* C2: the setup task runs once and constructs at most one handle; every   *)
(* call that got past the gate observed the same completion; and the       *)
(* handle, once set, is never replaced or cleared.                         *)
(***************************************************************************)
SawRejection(o) == o.pc = "done" /\ o.calls = 0 /\ o.result = Thrown(ClientConfigError)

C2_SetupOnce ==
    /\ [](/\ setupRuns = 1
          /\ client \in {0, 1}
          /\ \A p \in Procs : ops[p].calls > 0 => ops[p].via = 1
          /\ \A p \in Procs :
                ops[p].pc \in {"issued", "responded", "done"} =>
                    (SawRejection(ops[p]) <=> initializationPromise = "rejected"))
    /\ [][client # 0 => client' = client]_vars

\* two calls that waited for the same setup have both issued their request
C2_Witness ==
    \E p, q \in Procs :
        /\ p # q
        /\ ops[p].early /\ ops[q].early
        /\ ops[p].calls = 1 /\ ops[q].calls = 1
        /\ ops[p].via = client /\ ops[q].via = client

(***************************************************************************)
(* C3 (as claimed): once the setup task has failed, or has finished        *)
(* without a handle, every call fails with 'Qdrant client not initialized' *)
(* and has issued no backend request.                                      *)
(***************************************************************************)
C3_NotInitializedOnFailedSetup ==
    (initializationPromise = "rejected" \/
     (initializationPromise = "fulfilled" /\ client = 0)) =>
        \A p \in Procs :
            ops[p].pc \notin {"idle", "gate"} =>
                /\ ops[p].pc = "done"
                /\ ops[p].calls = 0
                /\ ops[p].result = Thrown(NotInitializedError)

(***************************************************************************)
(* SpecCollections: the collection lifecycle.  Two callers create, drop,   *)
(* test and list a name, on a backend that reports a missing collection    *)
(* in one of the forms of NotFoundErrors and may fail any request.         *)
(***************************************************************************)
CollCallers == {1, 2}
CollNames == {"c"}

InitCollections ==
    \E nf \in NotFoundErrors, f \in TransportErrors :
        Constructor(CollCallers, GoodConfig, [n \in CollNames |-> NoCollection],
                    [notFound |-> nf, faults |-> {f}])

NextCollections ==
    \/ SettleInitialize
    \/ \E p \in Procs :
          \/ CreateCollection(p, CollNames)
          \/ CreateHybridCollection(p, CollNames)
          \/ DropCollection(p, CollNames)
          \/ HasCollection(p, CollNames)
          \/ ListCollections(p)
          \/ Steps(p)

SpecCollections == InitCollections /\ [][NextCollections]_vars

HasCollectionDone(p) == ops[p].op = "hasCollection" /\ ops[p].pc = "done"
ThrewFault(o) == o.result.tag = "throw" /\ o.result.error \in backendErrors.faults

(***************************************************************************)
(* C4: hasCollection answers false for a name that was never created or    *)
(* whose drop has returned, and true for a name whose creation has         *)
(* returned and that has not been dropped since (unless the request itself *)
(* fails, and then it throws that failure).                                *)
(***************************************************************************)
C4_HasCollectionAfterCreate ==
    \A p \in Procs :
        HasCollectionDone(p) =>
            /\ ops[p].snap.known = "present" =>
                  ops[p].result = Returned(TRUE) \/ ThrewFault(ops[p])
            /\ ops[p].snap.known = "absent" =>
                  ops[p].result = Returned(FALSE) \/ ThrewFault(ops[p])

\* one caller was answered true for a created name, the other false for an absent one
C4_Witness ==
    \E p, q \in Procs :
        /\ HasCollectionDone(p) /\ HasCollectionDone(q)
        /\ ops[p].snap.known = "present" /\ ops[p].result = Returned(TRUE)
        /\ ops[q].snap.known = "absent" /\ ops[q].result = Returned(FALSE)

(***************************************************************************)
(* C5: hasCollection turns a backend failure into false exactly when the   *)
(* failure is a not-found response (status 404, or a message containing    *)
(* 'not found'); every other failure is thrown to the caller unchanged,    *)
(* and a request that succeeds is answered true.                           *)
(***************************************************************************)
NotFoundResponse(error) ==
    error.status = 404 \/ \E i \in 1..Len(error.message) - 1 :
                              error.message[i] = "not" /\ error.message[i + 1] = "found"

C5_NotFoundMapsToFalse ==
    \A p \in Procs :
        HasCollectionDone(p) =>
            ops[p].result =
                IF ops[p].resp.tag = "ok" THEN Returned(TRUE)
                ELSE IF NotFoundResponse(ops[p].resp.error) THEN Returned(FALSE)
                ELSE Thrown(ops[p].resp.error)

\* a not-found response without the 404 status was answered false, and another
\* failure was thrown
C5_Witness ==
    \E p, q \in Procs :
        /\ HasCollectionDone(p) /\ HasCollectionDone(q)
        /\ ops[p].resp.tag = "err" /\ ops[p].resp.error.status # 404
        /\ ops[p].result = Returned(FALSE)
        /\ ops[q].resp.tag = "err" /\ ops[q].result = Thrown(ops[q].resp.error)

(***************************************************************************)
(* SpecDelete: insert, delete and the three read operations.  One caller   *)
(* works on a collection that exists, simple or hybrid, with documents of  *)
(* every id; any request may fail.                                         *)
(***************************************************************************)
DataCallers == {1}
DataNames == {"c"}
DataErrors ==
    [notFound |-> Err(NotFoundStatus, <<"Not", "Found">>),
     faults |-> {Err(500, <<"internal", "error">>)}]
EmptyCollection(kind) == [exists |-> TRUE, kind |-> kind, points |-> {}]

DeleteDocs == {Doc(id, <<1, 0>>, <<"a">>) : id \in Ids}
IdSeqs == UNION {[1..n -> Ids] : n \in 1..MaxBatch}

InitDelete ==
    \E kind \in {"simple", "hybrid"} :
        Constructor(DataCallers, GoodConfig, [n \in DataNames |-> EmptyCollection(kind)],
                    DataErrors)

NextDelete ==
    \/ SettleInitialize
    \/ \E p \in Procs :
          \/ Insert(p, DataNames, DeleteDocs)
          \/ InsertHybrid(p, DataNames, DeleteDocs)
          \/ Delete(p, DataNames, IdSeqs)
          \/ Search(p, DataNames, {<<1, 0>>}, {None}, {None})
          \/ HybridSearch(p, DataNames, {<<DenseRequest(<<1, 0>>, None)>>}, {None})
          \/ Query(p, DataNames, {<<>>}, {{"content"}}, {None})
          \/ Steps(p)

SpecDelete == InitDelete /\ [][NextDelete]_vars

Reads == {"search", "hybridSearch", "query"}

\* the ids of the records a read operation has returned
ReturnedIds(o) ==
    IF o.op = "query"
    THEN {o.result.value[i].id : i \in 1..Len(o.result.value)}
    ELSE {o.result.value[i].document.id : i \in 1..Len(o.result.value)}

ReadDone(p) ==
    ops[p].op \in Reads /\ ops[p].pc = "done" /\ ops[p].result.tag = "value"

(***************************************************************************)
(* C6: a query, search or hybridSearch returns no id whose deletion had    *)
(* been acknowledged (delete had returned) when the backend answered it,   *)
(* unless an insert has written the id again since.                        *)
(***************************************************************************)
C6_DeletedIdsNotReturned ==
    \A p \in Procs :
        ReadDone(p) => ReturnedIds(ops[p]) \cap ops[p].snap.deleted = {}

\* a read returned a document of a collection an id had been deleted from
C6_Witness ==
    \E p \in Procs :
        /\ ReadDone(p)
        /\ ops[p].snap.deleted # {}
        /\ ReturnedIds(ops[p]) # {}

(***************************************************************************)
(* SpecSearch: search with every combination of options.  One caller       *)
(* inserts documents of every id and vector into a simple collection and   *)
(* searches it with topK and threshold omitted, zero or set.               *)
(***************************************************************************)
SearchDocs == {Doc(id, v, <<"a">>) : id \in Ids, v \in Vectors}
TopKs == {None, Some(0), Some(1), Some(2)}
Thresholds == {None, Some(0), Some(1), Some(-1)}

InitSearch ==
    Constructor(DataCallers, GoodConfig, [n \in DataNames |-> EmptyCollection("simple")],
                DataErrors)

NextSearch ==
    \/ SettleInitialize
    \/ \E p \in Procs :
          \/ Insert(p, DataNames, SearchDocs)
          \/ Search(p, DataNames, Vectors, TopKs, Thresholds)
          \/ Steps(p)

SpecSearch == InitSearch /\ [][NextSearch]_vars

SearchDone(p) ==
    ops[p].op = "search" /\ ops[p].pc = "done" /\ ops[p].result.tag = "value"

\* the score the backend's metric gives a stored point against the query vector
StoredScore(o, pt) == Cosine(o.args.queryVector, pt.vector)

(***************************************************************************)
(* C7 (as claimed): for every options value, topK = 0 and omitted options  *)
(* included, search returns at most topK results (10 when topK is          *)
(* omitted), none with a score below the threshold, best score first.      *)
(***************************************************************************)
C7_AtMostTopKAboveThreshold ==
    \A p \in Procs :
        SearchDone(p) =>
            LET o == ops[p]
                r == o.result.value
                k == IF o.args.topK.some THEN o.args.topK.v ELSE 10
            IN  /\ Len(r) <= k
                /\ o.args.threshold.some =>
                      \A i \in 1..Len(r) : r[i].score >= o.args.threshold.v
                /\ \A i, j \in 1..Len(r) : i < j => r[i].score >= r[j].score

(***************************************************************************)
(* C8 (as claimed): without a threshold, or with threshold 0, no score     *)
(* filtering is applied: search returns the topK best stored documents     *)
(* whatever their scores, negative ones included.  (Stated for topK        *)
(* omitted or positive.)                                                   *)
(***************************************************************************)
C8_NoThresholdNoFiltering ==
    \A p \in Procs :
        (/\ SearchDone(p)
         /\ ops[p].args.topK # Some(0)
         /\ ops[p].args.threshold \in {None, Some(0)}) =>
            LET o == ops[p]
                r == o.result.value
                k == IF o.args.topK.some THEN o.args.topK.v ELSE 10
                got == {r[i].document.id : i \in 1..Len(r)}
            IN  /\ Len(r) = Min(k, Cardinality(o.snap.points))
                /\ \A pt \in o.snap.points :
                      pt.id \notin got =>
                          \A i \in 1..Len(r) : r[i].score >= StoredScore(o, pt)

(***************************************************************************)
(* SpecQuery: query with filters of every shape.  One caller inserts       *)
(* documents of every id and path into a simple collection and queries it  *)
(* with a filter that is the clause relativePath == "P" for a path P, or   *)
(* is blank, or names another field or operator, or holds the clause among *)
(* other text.                                                             *)
(***************************************************************************)
Paths == {<<"a">>, <<"b">>, <<"a", Q, "b">>}
QueryDocs == {Doc(id, <<1, 0>>, path) : id \in Ids, path \in Paths}

\* the text relativePath == "P", with or without spaces around the operator
Clause(P, sp) == <<"relativePath">> \o sp \o <<"==">> \o sp \o <<Q>> \o P \o <<Q>>
Spacings == {<<>>, <<SP>>}
ClauseFilters == {Clause(P, sp) : P \in Paths, sp \in Spacings}
OtherFilters ==
    {<<>>, <<SP>>, <<SP, SP>>,
     <<"fileExtension", "==", Q, "a", Q>>,
     <<"relativePath", "!=", Q, "a", Q>>,
     <<"relativePath", "==", Q, Q>>,
     <<"relativePath", "==", "a">>,
     Clause(<<"a">>, <<SP>>) \o <<SP, "&&", SP, "fileExtension", "==", Q, ".ts", Q>>,
     <<"fileExtension", "==", Q, ".ts", Q, SP, "&&", SP>> \o Clause(<<"b">>, <<>>),
     <<"x">> \o Clause(<<"a">>, <<>>),
     Clause(<<"a">>, <<>>) \o <<SP, "x">>,
     <<SP>> \o Clause(<<"b">>, <<SP>>) \o <<SP>>}
QueryFilters == ClauseFilters \cup OtherFilters

InitQuery ==
    Constructor(DataCallers, GoodConfig, [n \in DataNames |-> EmptyCollection("simple")],
                DataErrors)

NextQuery ==
    \/ SettleInitialize
    \/ \E p \in Procs :
          \/ Insert(p, DataNames, QueryDocs)
          \/ Query(p, DataNames, QueryFilters, {{"relativePath"}}, {None, Some(1)})
          \/ Steps(p)

SpecQuery == InitQuery /\ [][NextQuery]_vars

QueryDone(p) == ops[p].op = "query" /\ ops[p].pc = "done"
QueryReturned(p) == QueryDone(p) /\ ops[p].result.tag = "value"

\* the stored points a query has returned a record of
ReturnedPoints(o) == {pt \in o.snap.points : pt.id \in ReturnedIds(o)}

OnlyPath(o, P) == \A pt \in ReturnedPoints(o) : pt.payload.relativePath = P

(***************************************************************************)
(* C9 (as claimed): query with the filter relativePath == "P" returns only *)
(* documents whose stored relativePath is P, for every non-empty P.        *)
(***************************************************************************)
C9_FilterReturnsOnlyPath ==
    \A p \in Procs :
        QueryReturned(p) =>
            \A P \in Paths, sp \in Spacings :
                ops[p].args.filter = Clause(P, sp) => OnlyPath(ops[p], P)

(***************************************************************************)
(* C9 (amended): query with the filter relativePath == "P" returns only    *)
(* documents whose stored relativePath is P, for every non-empty P that    *)
(* holds no double quote.                                                  *)
(***************************************************************************)
C9_FilterReturnsOnlyQuoteFreePath ==
    \A p \in Procs :
        QueryReturned(p) =>
            \A P \in {x \in Paths : Q \notin Range(x)}, sp \in Spacings :
                ops[p].args.filter = Clause(P, sp) => OnlyPath(ops[p], P)

\* a query filtered on "a" returned a document while the collection held one of
\* another path
C9_Witness ==
    \E p \in Procs :
        /\ QueryReturned(p)
        /\ ops[p].args.filter \in {Clause(<<"a">>, sp) : sp \in Spacings}
        /\ ReturnedIds(ops[p]) # {}
        /\ \E pt \in ops[p].snap.points : pt.payload.relativePath # <<"a">>

\* the filter is one clause relativePath == "literal" and nothing else, spaces
\* around it and around the operator apart
IsExactClause(f) ==
    LET t == Trim(f)
        j == SkipSpaces(t, 2)
        k == SkipSpaces(t, j + 1)
    IN  /\ Len(t) >= 5
        /\ t[1] = "relativePath"
        /\ j <= Len(t) /\ t[j] = "=="
        /\ k <= Len(t) - 2 /\ t[k] = Q
        /\ t[Len(t)] = Q
        /\ \A i \in (k + 1)..(Len(t) - 1) : t[i] # Q

\* the ids an unfiltered query of the same limit returns: the `limit` smallest
UnfilteredIds(o) ==
    LET ids == {pt.id : pt \in o.snap.points}
        k == IF o.args.limit.some THEN o.args.limit.v ELSE 100
    IN  {id \in ids : Cardinality({x \in ids : x < id}) < k}

(***************************************************************************)
(* C10 (as claimed): for every filter that is not exactly one clause       *)
(* relativePath == "literal", query raises no parse error and returns what *)
(* the same query without a filter returns.                                *)
(***************************************************************************)
C10_OtherFiltersAreUnfiltered ==
    \A p \in Procs :
        (QueryDone(p) /\ ~IsExactClause(ops[p].args.filter)) =>
            IF ops[p].result.tag = "value"
            THEN ReturnedIds(ops[p]) = UnfilteredIds(ops[p])
            ELSE ops[p].result.error \in backendErrors.faults

(***************************************************************************)
(* SpecHybrid: hybridSearch with request lists of every shape.  One caller *)
(* inserts documents into a hybrid collection and searches it with a list  *)
(* that is empty, or holds sparse requests only, or holds a dense request  *)
(* first or second, with or without data that is an array.                 *)
(***************************************************************************)
HybridRequests ==
    {<<>>,
     <<SparseRequest(None)>>,
     <<SparseRequest(Some(1))>>,
     <<SparseRequest(None), SparseRequest(Some(1))>>,
     <<DenseRequest(<<1, 0>>, None)>>,
     <<DenseRequest(<<1, 0>>, Some(1))>>,
     <<SparseRequest(Some(1)), DenseRequest(<<0, 1>>, None)>>,
     <<[anns_field |-> "vector", data |-> <<"text">>, isArray |-> FALSE, limit |-> None]>>}

InitHybrid ==
    Constructor(DataCallers, GoodConfig, [n \in DataNames |-> EmptyCollection("hybrid")],
                DataErrors)

NextHybrid ==
    \/ SettleInitialize
    \/ \E p \in Procs :
          \/ InsertHybrid(p, DataNames,
                          {Doc(id, v, <<"a">>) : id \in Ids, v \in {<<1, 0>>, <<0, 1>>}})
          \/ HybridSearch(p, DataNames, HybridRequests, {None, Some(1)})
          \/ Steps(p)

SpecHybrid == InitHybrid /\ [][NextHybrid]_vars

\* a hybridSearch whose request list holds no request on the dense field
NoDense(o) ==
    /\ o.op = "hybridSearch"
    /\ \A i \in 1..Len(o.args.searchRequests) :
          o.args.searchRequests[i].anns_field # "vector"

(***************************************************************************)
(* C11: a hybridSearch whose request list holds no request on the dense    *)
(* field (a sparse request only, or no request at all) issues no backend   *)
(* call and fails with 'Dense vector search request required for hybrid    *)
(* search', and the step by which it fails leaves the collections as they  *)
(* were.                                                                   *)
(***************************************************************************)
C11_NoDenseRequestIsInvalid ==
    /\ [](\A p \in Procs :
             NoDense(ops[p]) =>
                 /\ ops[p].pc \in {"gate", "done"}
                 /\ ops[p].calls = 0
                 /\ ops[p].pc = "done" => ops[p].result = Thrown(DenseRequiredError))
    /\ [][\A p \in Procs :
             (NoDense(ops[p]) /\ ops[p].pc = "gate" /\ ops'[p].pc # "gate") =>
                 collections' = collections]_vars

\* a hybridSearch with a sparse request only has failed on a collection that
\* holds documents
C11_Witness ==
    \E p \in Procs :
        /\ NoDense(ops[p])
        /\ ops[p].args.searchRequests # <<>>
        /\ ops[p].pc = "done"
        /\ ops[p].result = Thrown(DenseRequiredError)
        /\ collections[ops[p].args.name].points # {}

(***************************************************************************)
(* SpecInsert: insert and insertHybrid followed by query.  One caller      *)
(* writes batches of documents of every id and path, ids repeated within a *)
(* batch included, into a simple or a hybrid collection and queries it     *)
(* without a filter; any request may fail, and an insert of the wrong kind *)
(* is refused by the backend.                                              *)
(***************************************************************************)
InsertDocs == {Doc(id, <<1, 0>>, path) : id \in Ids, path \in {<<"a">>, <<"b">>}}

InitInsert ==
    \E kind \in {"simple", "hybrid"} :
        Constructor(DataCallers, GoodConfig, [n \in DataNames |-> EmptyCollection(kind)],
                    DataErrors)

NextInsert ==
    \/ SettleInitialize
    \/ \E p \in Procs :
          \/ Insert(p, DataNames, InsertDocs)
          \/ InsertHybrid(p, DataNames, InsertDocs)
          \/ Query(p, DataNames, {<<>>}, {{"relativePath"}}, {None, Some(1)})
          \/ Steps(p)

SpecInsert == InitInsert /\ [][NextInsert]_vars

InsertDone(p) == ops[p].op \in {"insert", "insertHybrid"} /\ ops[p].pc = "done"

\* the limit of a query, 100 when omitted, is at least the number of stored points
SufficientLimit(o) ==
    (IF o.args.limit.some THEN o.args.limit.v ELSE 100) >= Cardinality(o.snap.points)

\* query has returned a record of document d
ReturnsDoc(o, d) ==
    \E i \in 1..Len(o.result.value) :
        /\ o.result.value[i].id = d.id
        /\ o.result.value[i].fields.relativePath = d.relativePath

SelfVectors == {<<1, 0>>, <<0, 1>>}
Stored(k) == {InsertPoint(Doc(id, <<1, 0>>, <<"a">>)) : id \in 2..(k + 1)}

InitSelf ==
    \E k \in 0..DefaultTopK :
        Constructor(DataCallers, GoodConfig,
                    [n \in DataNames |-> [exists |-> TRUE, kind |-> "simple",
                                          points |-> Stored(k)]],
                    DataErrors)

NextSelf ==
    \/ SettleInitialize
    \/ \E p \in Procs :
          \/ Insert(p, DataNames, {Doc(1, v, <<"a">>) : v \in SelfVectors})
          \/ Delete(p, DataNames, {<<1>>})
          \/ Search(p, DataNames, SelfVectors, {None}, {None})
          \/ Steps(p)

SpecSelf == InitSelf /\ [][NextSelf]_vars

\* the search has returned document d with a score no stored point exceeds
ReturnsBest(o, d) ==
    \E i \in 1..Len(o.result.value) :
        /\ o.result.value[i].document.id = d.id
        /\ \A pt \in o.snap.points : o.result.value[i].score >= StoredScore(o, pt)

\* the stored points that score as well against d's vector as d itself
AsGoodAs(o, d) ==
    {pt \in o.snap.points : Cosine(d.vector, pt.vector) >= Cosine(d.vector, d.vector)}

(***************************************************************************)
(* C13 (as claimed): for every document D inserted and not deleted, search *)
(* with D's vector and default options returns D's id with the maximal     *)
(* score, whatever else is stored.                                         *)
(***************************************************************************)
C13_SelfSearchReturnsSelf ==
    \A p \in Procs :
        SearchDone(p) =>
            \A d \in ops[p].snap.inserted :
                d.vector = ops[p].args.queryVector => ReturnsBest(ops[p], d)

(***************************************************************************)
(* C13 (amended): for every document D inserted and not deleted, search    *)
(* with D's vector and default options returns D's id with the maximal     *)
(* score, provided no more than topK (10) stored documents score as well   *)
(* as D.                                                                   *)
(***************************************************************************)
C13_SelfSearchReturnsSelfAmongTopK ==
    \A p \in Procs :
        SearchDone(p) =>
            \A d \in ops[p].snap.inserted :
                (/\ d.vector = ops[p].args.queryVector
                 /\ Cardinality(AsGoodAs(ops[p], d)) <= 10) => ReturnsBest(ops[p], d)

\* the search returned the inserted document among ten of its vector
C13_Witness ==
    \E p \in Procs :
        /\ SearchDone(p)
        /\ \E d \in ops[p].snap.inserted :
              /\ d.vector = ops[p].args.queryVector
              /\ Cardinality(AsGoodAs(ops[p], d)) = 10
              /\ ReturnsBest(ops[p], d)

(***************************************************************************)
(* SpecConfig: the adapter constructed with every combination of url,      *)
(* host, port, apiKey and timeout, each absent, empty or zero, or set (the *)
(* url with and without a scheme).  One caller then calls hasCollection.   *)
(***************************************************************************)
InitConfig ==
    \E url \in {NoStr, Some(<<>>), Some(<<"http://", "q:6333">>), Some(<<"q:6333">>)},
       host \in {NoStr, Some(<<>>), Some(<<"h">>)},
       port \in {None, Some(0), Some(7000)},
       apiKey \in {NoStr, Some(<<>>), Some(<<"k">>)},
       timeout \in {None, Some(0), Some(5)} :
        Constructor(DataCallers, Config(url, host, port, apiKey, timeout),
                    [n \in DataNames |-> EmptyCollection("simple")], DataErrors)

NextConfig ==
    \/ SettleInitialize
    \/ \E p \in Procs :
          \/ HasCollection(p, DataNames)
          \/ Steps(p)

SpecConfig == InitConfig /\ [][NextConfig]_vars

\* the client was given the url and no host or port
TargetIsUrl(url) ==
    clientConfig.url = url /\ ~clientConfig.host.some /\ ~clientConfig.port.some
\* the client was given the host and port and no url
TargetIsHost(host, port) ==
    clientConfig.host = Some(host) /\ clientConfig.port = Some(port) /\ ~clientConfig.url.some

(***************************************************************************)
(* C14 (as claimed): for every combination of supplied fields, the client  *)
(* is given the url alone if a url is supplied; otherwise the host, with   *)
(* the port or 6333 when no port is supplied, if a host is supplied;       *)
(* otherwise localhost and 6333.                                           *)
(***************************************************************************)
C14_TargetByPrecedence ==
    IF config.url.some THEN TargetIsUrl(config.url)
    ELSE IF config.host.some
    THEN TargetIsHost(config.host.v, IF config.port.some THEN config.port.v ELSE 6333)
    ELSE TargetIsHost(<<"localhost">>, 6333)

(***************************************************************************)
(* C14 (amended): the same precedence, a url or host counting as supplied  *)
(* when it is not the empty string and a port when it is not 0.            *)
(***************************************************************************)
C14_TargetByPrecedenceOfNonEmpty ==
    IF config.url.some /\ config.url.v # <<>> THEN TargetIsUrl(config.url)
    ELSE IF config.host.some /\ config.host.v # <<>>
    THEN TargetIsHost(config.host.v,
                      IF config.port.some /\ config.port.v # 0 THEN config.port.v ELSE 6333)
    ELSE TargetIsHost(<<"localhost">>, 6333)

\* a call went through a handle that was built from the url of a config that
\* also names a host and a port
C14_Witness ==
    /\ config.url.some /\ config.url.v # <<>>
    /\ config.host.some /\ config.host.v # <<>>
    /\ config.port.some /\ config.port.v # 0
    /\ TargetIsUrl(config.url)
    /\ \E p \in Procs : ops[p].calls = 1 /\ ops[p].via = client

(***************************************************************************)
(* C15 (as claimed): an apiKey or a timeout the config supplies is given   *)
(* to the client whatever its value, the empty apiKey and the timeout 0    *)
(* included, and whatever the connection target.                           *)
(***************************************************************************)
C15_ApiKeyAndTimeoutPassed ==
    /\ config.apiKey.some => clientConfig.apiKey = config.apiKey
    /\ config.timeout.some => clientConfig.timeout = config.timeout

(***************************************************************************)
(* C19: the constructor returns for every config; when the client handle   *)
(* could not be built nothing is thrown before a call awaits the gate, and *)
(* every call that has left the gate has thrown that failure without a     *)
(* backend request.                                                        *)
(***************************************************************************)
C19_ConstructorNeverThrows ==
    /\ initializationPromise \in {"pending", "fulfilled", "rejected"}
    /\ client = 0 =>
          \A p \in Procs :
              \/ ops[p].pc \in {"idle", "gate"}
              \/ /\ ops[p].pc = "done"
                 /\ ops[p].calls = 0
                 /\ ops[p].result = Thrown(ClientConfigError)
                 /\ initializationPromise = "rejected"

\* a call on an adapter built from a url without scheme has thrown at the gate
C19_Witness ==
    /\ client = 0
    /\ \E p \in Procs : ops[p].pc = "done" /\ ops[p].result = Thrown(ClientConfigError)

(***************************************************************************)
(* C16: no operation retries.  A call issues at most one backend request,  *)
(* and when the request fails the call throws the backend's error as it    *)
(* is, but for hasCollection, which answers false to a not-found error.    *)
(***************************************************************************)
C16_NoRetries ==
    \A p \in Procs :
        /\ ops[p].calls <= 1
        /\ (ops[p].pc = "done" /\ ops[p].calls = 1 /\ ops[p].resp.tag = "err") =>
              ops[p].result =
                  IF ops[p].op = "hasCollection" /\ NotFoundResponse(ops[p].resp.error)
                  THEN Returned(FALSE)
                  ELSE Thrown(ops[p].resp.error)

\* a query and a dropCollection have thrown the error of their one request
C16_Witness ==
    \E p, q \in Procs :
        /\ ops[p].op = "query" /\ ops[q].op = "dropCollection"
        /\ ops[p].pc = "done" /\ ops[q].pc = "done"
        /\ ops[p].calls = 1 /\ ops[q].calls = 1
        /\ ops[p].resp.tag = "err" /\ ops[p].result = Thrown(ops[p].resp.error)
        /\ ops[q].resp.tag = "err" /\ ops[q].result = Thrown(ops[q].resp.error)

(***************************************************************************)
(* SpecFields: query with output fields and limits of every kind.  One     *)
(* caller inserts documents into a simple collection and queries it        *)
(* without a filter, asking for no field, for payload fields, for names    *)
(* the payload does not hold (among them the vector and names every        *)
(* object inherits), with the limit omitted, 0 or 1.                       *)
(***************************************************************************)
InitFields ==
    Constructor(DataCallers, GoodConfig, [n \in DataNames |-> EmptyCollection("simple")],
                DataErrors)

NextFields ==
    \/ SettleInitialize
    \/ \E p \in Procs :
          \/ Insert(p, DataNames, {Doc(id, <<1, 0>>, <<"a">>) : id \in Ids})
          \/ Query(p, DataNames, {<<>>},
                   {{}, {"relativePath"}, {"content", "startLine", "nope"}, {"vector", "id"},
                    {"metadata", "toString"}, {"constructor"}},
                   {None, Some(0), Some(1)})
          \/ Steps(p)

SpecFields == InitFields /\ [][NextFields]_vars

\* the stored point a record of query was made of
PointOf(o, rec) == CHOOSE pt \in o.snap.points : pt.id = rec.id

(***************************************************************************)
(* C17 (as claimed): every record query returns holds the id and, besides, *)
(* exactly the names of outputFields that are keys of the stored payload,  *)
(* with the stored values; and there are at most limit records, 100 when   *)
(* the limit is omitted.                                                   *)
(***************************************************************************)
C17_RecordsAreProjections ==
    \A p \in Procs :
        QueryReturned(p) =>
            LET o == ops[p]
                r == o.result.value
                k == IF o.args.limit.some THEN o.args.limit.v ELSE 100
            IN  /\ Len(r) <= k
                /\ \A i \in 1..Len(r) :
                      /\ \E pt \in o.snap.points : pt.id = r[i].id
                      /\ DOMAIN r[i].fields =
                            o.args.outputFields \cap DOMAIN PointOf(o, r[i]).payload
                      /\ \A f \in o.args.outputFields \cap DOMAIN PointOf(o, r[i]).payload :
                            r[i].fields[f] = PointOf(o, r[i]).payload[f]

(***************************************************************************)
(* SpecDecode: search and hybridSearch on a collection that other writers  *)
(* filled.  Each point has no payload, an empty one, one with some of the  *)
(* fields, or the payload insert writes.                                   *)
(***************************************************************************)
OldPoint(id, named, payload) ==
    IF payload.some
    THEN [id |-> id, named |-> named, vector |-> <<1, 0>>, payload |-> payload.v]
    ELSE [id |-> id, named |-> named, vector |-> <<1, 0>>]

InitDecode ==
    \E kind \in {"simple", "hybrid"},
       shape \in [Ids -> {NoPayload,
                          Some(<<>>),
                          Some([content |-> <<"x">>]),
                          Some([relativePath |-> <<"a">>, startLine |-> 1]),
                          Some(PayloadOf(Doc(1, <<1, 0>>, <<"a">>)))}] :
        Constructor(DataCallers, GoodConfig,
                    [n \in DataNames |->
                        [exists |-> TRUE, kind |-> kind,
                         points |-> {OldPoint(id, kind = "hybrid", shape[id]) : id \in Ids}]],
                    DataErrors)

NextDecode ==
    \/ SettleInitialize
    \/ \E p \in Procs :
          \/ Search(p, DataNames, {<<1, 0>>}, {None, Some(1)}, {None})
          \/ HybridSearch(p, DataNames, {<<DenseRequest(<<1, 0>>, None)>>}, {None})
          \/ Steps(p)

SpecDecode == InitDecode /\ [][NextDecode]_vars

\* the stored point of id `id` has no payload, or a payload without the field
Absent(o, id, field) ==
    \A pt \in o.snap.points :
        pt.id = id => ("payload" \notin DOMAIN pt \/ field \notin DOMAIN pt.payload)

(***************************************************************************)
(* C18: search and hybridSearch return a value whenever the backend        *)
(* answers, and in each decoded document a content, relativePath or        *)
(* fileExtension the stored payload does not have is the empty string, a   *)
(* startLine or endLine it does not have is 0, and a metadata it does not  *)
(* have is the empty mapping.                                              *)
(***************************************************************************)
C18_MissingFieldsDecodeToDefaults ==
    \A p \in Procs :
        (/\ ops[p].op \in {"search", "hybridSearch"}
         /\ ops[p].pc = "done"
         /\ ops[p].resp.tag = "ok") =>
            /\ ops[p].result.tag = "value"
            /\ Len(ops[p].result.value) = Len(ops[p].resp.value)
            /\ \A i \in 1..Len(ops[p].result.value) :
                  LET doc == ops[p].result.value[i].document IN
                  /\ \A f \in {"content", "relativePath", "fileExtension"} :
                        Absent(ops[p], doc.id, f) => doc[f] = <<>>
                  /\ \A f \in {"startLine", "endLine"} :
                        Absent(ops[p], doc.id, f) => doc[f] = 0
                  /\ Absent(ops[p], doc.id, "metadata") => doc.metadata = <<>>

\* a hybridSearch has decoded a point without payload and one with two fields
C18_Witness ==
    \E p \in Procs :
        /\ ops[p].op = "hybridSearch" /\ ops[p].pc = "done" /\ ops[p].result.tag = "value"
        /\ \E i, j \in 1..Len(ops[p].result.value) :
              /\ \E pt \in ops[p].snap.points :
                    /\ pt.id = ops[p].result.value[i].document.id
                    /\ "payload" \notin DOMAIN pt
              /\ ops[p].result.value[i].document.content = <<>>
              /\ ops[p].result.value[i].document.startLine = 0
              /\ ops[p].result.value[j].document.startLine = 1
              /\ ops[p].result.value[j].document.endLine = 0

(***************************************************************************)
(* SpecCodec: insert followed by search, on documents whose fields are set *)
(* or are the empty string, 0 and the empty mapping, all of them or one at *)
(* a time.  One caller inserts them one by one into a simple collection    *)
(* and searches with their vector or with another.                         *)
(***************************************************************************)
CodecFields ==
    {"content", "relativePath", "startLine", "endLine", "fileExtension", "metadata"}

\* the document of id `id` whose fields in `emptied` are empty and the others set
CodecDoc(id, emptied) ==
    [id |-> id, vector |-> <<1, 0>>,
     content |-> IF "content" \in emptied THEN <<>> ELSE <<"x">>,
     relativePath |-> IF "relativePath" \in emptied THEN <<>> ELSE <<"a">>,
     startLine |-> IF "startLine" \in emptied THEN 0 ELSE 1,
     endLine |-> IF "endLine" \in emptied THEN 0 ELSE 2,
     fileExtension |-> IF "fileExtension" \in emptied THEN <<>> ELSE <<".ts">>,
     metadata |-> IF "metadata" \in emptied THEN <<>> ELSE [k |-> 1]]
FullDoc(id) == CodecDoc(id, {})
EmptyDoc(id) == CodecDoc(id, CodecFields)
CodecDocs ==
    {CodecDoc(id, e) : id \in Ids,
                       e \in {{}, CodecFields, {"content"}, {"relativePath"}, {"startLine"},
                              {"endLine"}, {"fileExtension"}, {"metadata"}}}

InsertOne(p, names, docs) ==
    \E n \in names, d \in docs : Invoke(p, "insert", [name |-> n, documents |-> <<d>>])

InitCodec ==
    Constructor(DataCallers, GoodConfig, [n \in DataNames |-> EmptyCollection("simple")],
                DataErrors)

NextCodec ==
    \/ SettleInitialize
    \/ \E p \in Procs :
          \/ InsertOne(p, DataNames, CodecDocs)
          \/ Search(p, DataNames, {<<1, 0>>, <<0, 1>>}, {None}, {None})
          \/ Steps(p)

SpecCodec == InitCodec /\ [][NextCodec]_vars

\* the decoded document is document d, the vector apart
SameButVector(doc, d) ==
    /\ doc.id = d.id
    /\ \A f \in CodecFields : doc[f] = d[f]

(***************************************************************************)
(* C20: every document search returns is, field by field (id, content,     *)
(* relativePath, startLine, endLine, fileExtension, metadata), the         *)
(* document that was inserted under its id, empty strings, 0 and the empty *)
(* mapping included; its vector is the query vector.                       *)
(***************************************************************************)
C20_CodecRoundTrip ==
    \A p \in Procs :
        SearchDone(p) =>
            \A i \in 1..Len(ops[p].result.value) :
                LET doc == ops[p].result.value[i].document IN
                /\ doc.vector = ops[p].args.queryVector
                /\ \A d \in ops[p].snap.inserted : d.id = doc.id => SameButVector(doc, d)

\* a search with another vector has returned the all-empty document and a
\* document with every field set
C20_Witness ==
    \E p \in Procs :
        /\ SearchDone(p)
        /\ ops[p].args.queryVector = <<0, 1>>
        /\ \E i, j \in 1..Len(ops[p].result.value) :
              /\ EmptyDoc(ops[p].result.value[i].document.id) \in ops[p].snap.inserted
              /\ SameButVector(ops[p].result.value[i].document,
                               EmptyDoc(ops[p].result.value[i].document.id))
              /\ FullDoc(ops[p].result.value[j].document.id) \in ops[p].snap.inserted
              /\ SameButVector(ops[p].result.value[j].document,
                               FullDoc(ops[p].result.value[j].document.id))

====
